---- MODULE Spec2Model ----
(***************************************************************************)
(* A model of src/bot.py: the helpers round_significant and get_coin_id,   *)
(* the two get_emoji closures of handle_price, and the command handlers    *)
(* handle_price, handle_convert, handle_kick, handle_ban and handle_mute.  *)
(*                                                                         *)
(* Numbers.  A Python number is modelled as a record [k, n].  k = "num" is *)
(* a finite number whose value is n / Scale (n an integer count of 1e-4);  *)
(* the inputs the specifications draw are multiples of 0.25, which binary  *)
(* floating point holds exactly, as it does their products, so that the    *)
(* decimal arithmetic below is the arithmetic Python performs on them.     *)
(* The other kinds are None, NaN, -0.0, +-infinity, a nonzero number below *)
(* 1e-10 in magnitude, the large number 1.79e308 (which two significant   *)
(* digits round beyond the largest float) and a non-numeric text.         *)
(*                                                                         *)
(* Strings.  Text that the code only builds (replies, formatted numbers)   *)
(* is a TLA+ string.  Text that the code inspects character by character   *)
(* (tickers, the amount argument) is a sequence of one-character strings.  *)
(* The non-ASCII characters of the replies are written as ASCII names.     *)
(*                                                                         *)
(* Exceptions.  An evaluation that may raise yields [ok, val]: ok = TRUE   *)
(* with the value, or ok = FALSE with the name of the exception class.     *)
(***************************************************************************)
EXTENDS Integers, Sequences, FiniteSets, TLC

VARIABLES cmd, input, log, ret

vars == <<cmd, input, log, ret>>

\* ------------------------------------------------------------------------
\* Python values and outcomes

Ret(v) == [ok |-> TRUE, val |-> v]

Raise(e) == [ok |-> FALSE, val |-> e]

Scale == 10^4

Num(n) == [k |-> "num", n |-> n]

None == [k |-> "none", n |-> 0]

NaN == [k |-> "nan", n |-> 0]

\* the float -0.0: equal to 0, printed with its sign by the "f" format
NegZero == [k |-> "negzero", n |-> 0]

Inf(sign) == [k |-> "inf", n |-> sign]

Tiny(sign) == [k |-> "tiny", n |-> sign]

Huge == [k |-> "huge", n |-> 1]

Text == [k |-> "text", n |-> 0]

IsNum(x) == x.k = "num"

Abs(n) == IF n < 0 THEN 0 - n ELSE n

Max(a, b) == IF a >= b THEN a ELSE b

\* ------------------------------------------------------------------------
\* Decimal rendering

Digit(d) == <<"0", "1", "2", "3", "4", "5", "6", "7", "8", "9">>[d + 1]

RECURSIVE NatStr(_)
NatStr(k) == IF k < 10 THEN Digit(k) ELSE NatStr(k \div 10) \o Digit(k % 10)

RECURSIVE NumDigits(_)
NumDigits(k) == IF k < 10 THEN 1 ELSE 1 + NumDigits(k \div 10)

RECURSIVE Zeros(_)
Zeros(w) == IF w <= 0 THEN "" ELSE "0" \o Zeros(w - 1)

\* k written in exactly w digits, zero-padded on the left (k < 10^w)
Padded(k, w) == Zeros(w - NumDigits(k)) \o NatStr(k)

\* the "," option of the format mini-language on the integer part
RECURSIVE Grouped(_)
Grouped(k) ==
    IF k < 1000 THEN NatStr(k)
    ELSE Grouped(k \div 1000) \o "," \o Padded(k % 1000, 3)

MinusIf(negative) == IF negative THEN "-" ELSE ""

\* floor(log10(a / Scale)) for a > 0
FloorLog10(a) == NumDigits(a) - 5

NearestHalfUp(q, r, u) == IF 2 * r >= u THEN q + 1 ELSE q

\* the multiple of the unit u nearest to q * u + r (0 <= r < u), as a count
\* of units: Python's round and its "f" format are correctly rounded on the
\* exact value of the float, a tie going to the even multiple
NearestEven(q, r, u) ==
    IF 2 * r > u \/ (2 * r = u /\ q % 2 = 1) THEN q + 1 ELSE q

RoundTo(n, u) ==
    (IF n < 0 THEN 0 - 1 ELSE 1) * u * NearestEven(Abs(n) \div u, Abs(n) % u, u)

\* round(x, d) on n = x * Scale
Round(n, d) == IF d >= 4 THEN n ELSE RoundTo(n, 10^(4 - d))

\* the d decimals of a fraction fp / Scale that holds at most d decimals
FracText(fp, d) ==
    IF d = 0 THEN ""
    ELSE IF d <= 4 THEN "." \o Padded(fp \div 10^(4 - d), d)
    ELSE "." \o Padded(fp, 4) \o Zeros(d - 4)

FixedText(r, d, grouped) ==
    (IF grouped THEN Grouped(r \div Scale) ELSE NatStr(r \div Scale))
        \o FracText(r % Scale, d)

\* f"{x:,.<d>f}" (grouped) or f"{x:.<d>f}" for a finite x = n / Scale, d >= 0
FormatF(n, d, grouped) == MinusIf(n < 0) \o FixedText(Abs(Round(n, d)), d, grouped)

\* str(x), the default string form
Str(x) ==
    CASE x.k = "none" -> "None"
      [] x.k = "nan" -> "nan"
      [] x.k = "inf" -> IF x.n < 0 THEN "-inf" ELSE "inf"
      [] x.k = "tiny" -> IF x.n < 0 THEN "-1e-11" ELSE "1e-11"
      [] x.k = "huge" -> "1.79e+308"
      [] x.k = "text" -> "abc"
      [] x.k = "negzero" -> "-0.0"
      [] OTHER -> FormatF(x.n, 4, FALSE)

\* ------------------------------------------------------------------------
\* round_significant (src/bot.py 38-58)

\* lines 50-55: the integer rendering when rounded is whole, else the
\* fixed-point rendering with max(digits, 0) decimals
RenderRounded(rounded, digits) ==
    IF rounded % Scale = 0
    THEN Ret(MinusIf(rounded < 0) \o Grouped(Abs(rounded) \div Scale))
    ELSE Ret(FormatF(rounded, Max(digits, 0), TRUE))

\* lines 48-55
RenderSignificant(n, digits) == RenderRounded(Round(n, digits), digits)

\* f"{int(1.79e308):,}", the exact value of the float 1.79e308
HugeGrouped ==
    "178,999,999,999,999,996,376,899,522,972,626,047," \o
    "077,637,637,819,240,219,954,027,593,177,370,961," \o
    "667,659,291,027,329,061,638,406,108,931,437,333," \o
    "529,420,935,752,785,895,444,161,234,074,984,843," \o
    "178,962,619,172,326,295,244,262,722,141,766,382," \o
    "622,299,223,626,438,470,088,150,218,987,997,954," \o
    "747,866,198,184,686,628,013,966,119,769,261,150," \o
    "988,554,952,970,462,018,533,787,926,725,176,560," \o
    "021,258,785,656,871,583,744"

\* lines 42-55, the body of the try block
round_significant_try(x, sig) ==
    IF (IsNum(x) /\ x.n = 0) \/ x = NegZero THEN Ret("0")
    ELSE IF x.k \in {"none", "text"} THEN Raise("TypeError")
    ELSE IF x.k = "tiny" THEN Ret(MinusIf(x.n < 0) \o "0." \o Zeros(8))
    ELSE IF x.k = "nan" THEN Raise("ValueError")
    ELSE IF x.k = "inf" THEN Raise("OverflowError")
    ELSE IF x.k = "huge" /\ sig <= 2 THEN Raise("OverflowError")
    ELSE IF x.k = "huge" THEN Ret(HugeGrouped)
    ELSE RenderSignificant(x.n, sig - FloorLog10(Abs(x.n)) - 1)

Propagate(r, x) == r

\* lines 56-58: except Exception: return str(x)
OrDefaultString(r, x) == IF r.ok THEN r ELSE Ret(Str(x))

round_significant(x, sig) == OrDefaultString(round_significant_try(x, sig), x)

\* ------------------------------------------------------------------------
\* Character strings: str.lower, str.upper, and the text of a character string

UpperChars == <<"B", "C", "D", "E", "H", "I", "M", "R", "S", "T", "U", "X">>

LowerChars == <<"b", "c", "d", "e", "h", "i", "m", "r", "s", "t", "u", "x">>

CharIndex(cs, c) == CHOOSE i \in DOMAIN cs : cs[i] = c

LowerChar(c) ==
    IF \E i \in DOMAIN UpperChars : UpperChars[i] = c
    THEN LowerChars[CharIndex(UpperChars, c)] ELSE c

UpperChar(c) ==
    IF \E i \in DOMAIN LowerChars : LowerChars[i] = c
    THEN UpperChars[CharIndex(LowerChars, c)] ELSE c

Lower(s) == [i \in DOMAIN s |-> LowerChar(s[i])]

Upper(s) == [i \in DOMAIN s |-> UpperChar(s[i])]

RECURSIVE Join(_)
Join(s) == IF s = <<>> THEN "" ELSE Head(s) \o Join(Tail(s))

\* ------------------------------------------------------------------------
\* get_coin_id (src/bot.py 61-73)

get_coin_id_nolower(ticker) ==
    LET t == ticker
    IN  IF t = <<"i", "d", "r">> THEN <<"i", "d", "r">>
        ELSE IF t = <<"b", "t", "c">> THEN <<"b", "i", "t", "c", "o", "i", "n">>
        ELSE IF t = <<"e", "t", "h">> THEN <<"e", "t", "h", "e", "r", "e", "u", "m">>
        ELSE IF t = <<"u", "s", "d", "t">> THEN <<"t", "e", "t", "h", "e", "r">>
        ELSE t

get_coin_id(ticker) ==
    LET t == Lower(ticker)
    IN  IF t = <<"i", "d", "r">> THEN <<"i", "d", "r">>
        ELSE IF t = <<"b", "t", "c">> THEN <<"b", "i", "t", "c", "o", "i", "n">>
        ELSE IF t = <<"e", "t", "h">> THEN <<"e", "t", "h", "e", "r", "e", "u", "m">>
        ELSE IF t = <<"u", "s", "d", "t">> THEN <<"t", "e", "t", "h", "e", "r">>
        ELSE t

\* ------------------------------------------------------------------------
\* get_emoji, the closure of the fast path (src/bot.py 158-170) and the one
\* of the fallback path (src/bot.py 233-242)

Beers == ":beers:"

Grin == ":grin:"

Pensive == ":pensive:"

\* a comparison of a number with an integer literal: with NaN it is False,
\* and None or a text on the left raises TypeError (Comparable is FALSE)
Comparable(x) == x.k \notin {"none", "text"}

Ge(x, c) == x.k \in {"num", "negzero"} /\ x.n >= c * Scale

Gt(x, c) == x.k \in {"num", "negzero"} /\ x.n > c * Scale

Lt(x, c) == x.k \in {"num", "negzero"} /\ x.n < c * Scale

get_emoji_fast_swapped(x) ==
    IF x = None THEN Ret("")
    ELSE IF ~Comparable(x) THEN Ret("")
    ELSE IF Gt(x, 0) THEN Ret(Grin)
    ELSE IF Ge(x, 5) THEN Ret(Beers)
    ELSE IF Lt(x, 0) THEN Ret(Pensive)
    ELSE Ret("")

\* lines 158-170: the comparisons run inside try, and an exception falls
\* through to the final return ""
get_emoji_fast(x) ==
    IF x = None THEN Ret("")
    ELSE IF ~Comparable(x) THEN Ret("")
    ELSE IF Ge(x, 5) THEN Ret(Beers)
    ELSE IF Gt(x, 0) THEN Ret(Grin)
    ELSE IF Lt(x, 0) THEN Ret(Pensive)
    ELSE Ret("")

\* lines 233-242: no try, an exception propagates
get_emoji_fallback(percentage) ==
    IF percentage = None THEN Ret("")
    ELSE IF ~Comparable(percentage) THEN Raise("TypeError")
    ELSE IF Ge(percentage, 5) THEN Ret(Beers)
    ELSE IF Gt(percentage, 0) THEN Ret(Grin)
    ELSE IF Lt(percentage, 0) THEN Ret(Pensive)
    ELSE Ret("")

\* ------------------------------------------------------------------------
\* The event log of one handler invocation: the calls it makes on its
\* collaborators, in order, each with its outcome

\* requests.get(url, params): the endpoint, the ids and currencies asked for,
\* and how the request ended
HttpGet(url, params, st) == [op |-> url, arg |-> params, res |-> st]

\* update.message.reply_text: which message, and the text as its lines
Reply(kind, lines) == [op |-> "reply_text", arg |-> <<kind>>, res |-> lines]

\* a method of context.bot: the user it is about, and its outcome
BotCall(method, about, outcome) == [op |-> method, arg |-> about, res |-> outcome]

\* a JSON object's key that is missing (None is a key holding null)
Absent == [k |-> "absent", n |-> 0]

\* dict.get(key, default) on the value v found under the key
Get(v, default) == IF v = Absent THEN default ELSE v

\* "v or 0"
OrZero(v) == IF v = None \/ (IsNum(v) /\ v.n = 0) THEN Num(0) ELSE v

\* f"{p:.2f}": None has no such format, TypeError
PctFormat(p) ==
    IF p = None THEN Raise("TypeError") ELSE Ret(FormatF(p.n, 2, FALSE))

\* f"#{rank}"
RankStr(rank) ==
    IF rank = Absent THEN "N/A"
    ELSE IF rank = None THEN "None"
    ELSE NatStr(rank.n \div Scale)

AllOk(outcomes) == \A i \in DOMAIN outcomes : outcomes[i].ok

FirstError(outcomes) ==
    outcomes[CHOOSE i \in DOMAIN outcomes :
                 ~outcomes[i].ok /\ \A j \in 1..(i - 1) : outcomes[j].ok]

MsgPriceUsage == <<"Format: /p [Ticker Kripto]. Contoh: /p BTC">>

MsgNotFound(ticker) ==
    <<":x: Koin dengan ticker '" \o Join(ticker) \o "' tidak ditemukan.">>

MsgApiError == <<"Terjadi kesalahan API. Coba lagi nanti.">>

MsgInternalError == <<"Terjadi kesalahan internal. Coba periksa format input Anda.">>

\* ------------------------------------------------------------------------
\* handle_price: the report (src/bot.py 177-189 and 244-256)

\* one percent line: the value's format is evaluated first, then the emoji
PctLine(label, f, emoji) ==
    IF ~f.ok THEN f
    ELSE IF ~emoji.ok THEN emoji
    ELSE Ret(label \o ": " \o f.val \o "% " \o emoji.val)

\* the Cap, FDV and Vol lines
StatLines(rank, market_cap_usd, fdv_usd, total_volume_usd) ==
    <<"Cap: #" \o RankStr(rank) \o " | $" \o FormatF(market_cap_usd.n, 0, TRUE),
      "FDV: $" \o FormatF(fdv_usd.n, 0, TRUE),
      "Vol: $" \o FormatF(total_volume_usd.n, 0, TRUE)>>

\* the report from its formatted parts <<usd, btc, eth, high, low, 1h, 24h,
\* 7d>>: an exception in any of them ends the try block
ReportText(ticker, parts, stats) ==
    IF ~AllOk(parts) THEN FirstError(parts)
    ELSE Ret(<<"*" \o Join(ticker) \o "*",
               "$" \o parts[1].val,
               "BTC: " \o parts[2].val,
               "ETH: " \o parts[3].val,
               "H|L: $" \o parts[4].val \o "|$" \o parts[5].val,
               parts[6].val,
               parts[7].val,
               parts[8].val>> \o stats)

\* ------------------------------------------------------------------------
\* handle_price, the fast path (src/bot.py 108-198)

\* lines 141-156: price_btc, price_eth from /simple/price, None on any failure
SimplePrices(sp) ==
    IF sp.st # "ok" \/ sp.entry = Absent
    THEN [btc |-> None, eth |-> None]
    ELSE [btc |-> Get(sp.entry.btc, None), eth |-> Get(sp.entry.eth, None)]

\* lines 174-175
OptionalPrice(price) ==
    IF price # None THEN round_significant(price, 8) ELSE Ret("N/A")

\* lines 183-185
FastPctLine(label, p) ==
    PctLine(label, PctFormat(p), IF p # None THEN get_emoji_fast(p) ELSE Ret(""))

\* lines 120-189: the report built from items[0] and the /simple/price answer
FastReport(ticker, data, sp) ==
    ReportText(ticker,
        <<round_significant(Get(data.current_price, Num(0)), 4),
          OptionalPrice(SimplePrices(sp).btc),
          OptionalPrice(SimplePrices(sp).eth),
          round_significant(Get(data.high_24h, Num(0)), 4),
          round_significant(Get(data.low_24h, Num(0)), 4),
          FastPctLine("1h", Get(data.price_change_percentage_1h_in_currency, None)),
          FastPctLine("24h", Get(data.price_change_percentage_24h, None)),
          FastPctLine("7d", Get(data.price_change_percentage_7d_in_currency, None))>>,
        StatLines(data.market_cap_rank,
                  OrZero(Get(data.market_cap, Num(0))),
                  OrZero(Get(data.fully_diluted_valuation, Num(0))),
                  OrZero(Get(data.total_volume, Num(0)))))

FastSendWithoutReturn(calls, report) ==
    IF report.ok
    THEN [sent |-> FALSE, events |-> Append(calls, Reply("report", report.val))]
    ELSE [sent |-> FALSE, events |-> calls]

\* lines 190-191 and 197-198: the report is sent and the handler returns, or
\* the exception is logged and the handler goes on to the fallback
FastSend(calls, report) ==
    IF report.ok
    THEN [sent |-> TRUE, events |-> Append(calls, Reply("report", report.val))]
    ELSE [sent |-> FALSE, events |-> calls]

\* lines 109-198: the events of the fast path and whether it sent the report.
\* m is the answer of /coins/markets, sp the answer of /simple/price (asked
\* only when the list is not empty).
FastPath(ticker, coin_id, m, sp) ==
    IF m.st # "ok" \/ m.items = <<>>
    THEN [sent |-> FALSE, events |-> <<HttpGet("coins/markets", <<Join(coin_id)>>, m.st)>>]
    ELSE FastSend(<<HttpGet("coins/markets", <<Join(coin_id)>>, m.st),
                    HttpGet("simple/price", <<Join(coin_id), "btc,eth,usd">>, sp.st)>>,
                  FastReport(ticker, m.items[1], sp))

\* ------------------------------------------------------------------------
\* handle_price, the fallback path (src/bot.py 200-267)

\* lines 250-252
FallbackPctLine(label, p) == PctLine(label, PctFormat(p), get_emoji_fallback(p))

\* lines 214-256: the report built from market_data
FallbackReport(ticker, market_data) ==
    ReportText(ticker,
        <<round_significant(Get(market_data.current_price.usd, Num(0)), 4),
          round_significant(Get(market_data.current_price.btc, Num(0)), 8),
          round_significant(Get(market_data.current_price.eth, Num(0)), 8),
          round_significant(Get(market_data.high_24h, Num(0)), 4),
          round_significant(Get(market_data.low_24h, Num(0)), 4),
          FallbackPctLine("1h", Get(market_data.price_change_percentage_1h_in_currency, None)),
          FallbackPctLine("24h", Get(market_data.price_change_percentage_24h, None)),
          FallbackPctLine("7d", Get(market_data.price_change_percentage_7d, None))>>,
        StatLines(market_data.market_cap_rank,
                  OrZero(Get(market_data.market_cap, Num(0))),
                  OrZero(Get(market_data.fully_diluted_valuation, Num(0))),
                  OrZero(Get(market_data.total_volume, Num(0)))))

\* lines 257 and 265-267
FallbackSend(call, report) ==
    IF report.ok THEN <<call, Reply("report", report.val)>>
    ELSE <<call, Reply("internal_error", MsgInternalError)>>

FallbackPathAnyHttpErrorNotFound(ticker, coin_id, fb) ==
    IF fb.st \in {"http_404", "http_error"}
    THEN <<HttpGet("coins/{id}", <<Join(coin_id)>>, fb.st), Reply("not_found", MsgNotFound(ticker))>>
    ELSE IF fb.st = "exception"
    THEN <<HttpGet("coins/{id}", <<Join(coin_id)>>, fb.st), Reply("internal_error", MsgInternalError)>>
    ELSE FallbackSend(HttpGet("coins/{id}", <<Join(coin_id)>>, fb.st),
                      FallbackReport(ticker, fb.market_data))

\* lines 201-267: fb is the answer of /coins/{id}
FallbackPath(ticker, coin_id, fb) ==
    IF fb.st = "http_404"
    THEN <<HttpGet("coins/{id}", <<Join(coin_id)>>, fb.st), Reply("not_found", MsgNotFound(ticker))>>
    ELSE IF fb.st = "http_error"
    THEN <<HttpGet("coins/{id}", <<Join(coin_id)>>, fb.st), Reply("api_error", MsgApiError)>>
    ELSE IF fb.st = "exception"
    THEN <<HttpGet("coins/{id}", <<Join(coin_id)>>, fb.st), Reply("internal_error", MsgInternalError)>>
    ELSE FallbackSend(HttpGet("coins/{id}", <<Join(coin_id)>>, fb.st),
                      FallbackReport(ticker, fb.market_data))

\* line 191 (return) against line 200: the fallback runs only when the fast
\* path did not send
ThenFallback(fast, ticker, coin_id, fb) ==
    IF fast.sent THEN fast.events
    ELSE fast.events \o FallbackPath(ticker, coin_id, fb)

\* lines 105-267
PriceLookup(ticker, coin_id, m, sp, fb) ==
    ThenFallback(FastPath(ticker, coin_id, m, sp), ticker, coin_id, fb)

\* handle_price (src/bot.py 99-267): the events of one invocation
handle_price(args, m, sp, fb) ==
    IF args = <<>> THEN <<Reply("usage", MsgPriceUsage)>>
    ELSE PriceLookup(Upper(args[1]), get_coin_id(Upper(args[1])), m, sp, fb)

\* ------------------------------------------------------------------------
\* handle_convert (src/bot.py 270-323)

Digits == {"0", "1", "2", "3", "4", "5", "6", "7", "8", "9"}

DigitValue(c) == CHOOSE d \in 0..9 : Digit(d) = c

RECURSIVE DigitsValue(_)
DigitsValue(s) ==
    IF s = <<>> THEN 0
    ELSE 10 * DigitsValue(SubSeq(s, 1, Len(s) - 1)) + DigitValue(s[Len(s)])

Unsigned(s) == IF s # <<>> /\ s[1] \in {"-", "+"} THEN Tail(s) ELSE s

Sign(s) == IF s # <<>> /\ s[1] = "-" THEN 0 - 1 ELSE 1

\* the float of sign sign and magnitude a / Scale
Signed(sign, a) == IF a = 0 /\ sign < 0 THEN NegZero ELSE Num(sign * a)

Points(body) == {i \in DOMAIN body : body[i] = "."}

\* the digits before and after the point at index dot
DecimalValue(sign, ip, fp) ==
    IF Len(ip) + Len(fp) >= 1 /\ Len(fp) <= 4
    THEN Ret(Signed(sign, DigitsValue(ip) * Scale + DigitsValue(fp) * 10^(4 - Len(fp))))
    ELSE Raise("ValueError")

DecimalAt(sign, body, dot) ==
    DecimalValue(sign, SubSeq(body, 1, dot - 1), SubSeq(body, dot + 1, Len(body)))

ParseUnsigned(sign, body) ==
    IF Lower(body) = <<"n", "a", "n">> THEN Ret(NaN)
    ELSE IF (\E i \in DOMAIN body : body[i] \notin Digits \cup {"."})
            \/ Cardinality(Points(body)) > 1
    THEN Raise("ValueError")
    ELSE DecimalAt(sign, body,
                   IF Points(body) = {} THEN Len(body) + 1
                   ELSE CHOOSE i \in Points(body) : TRUE)

\* float(s) on the argument text: an optional sign, then nan, or digits with
\* at most one point (up to four decimals here); anything else is ValueError
ParseFloat(s) == ParseUnsigned(Sign(s), Unsigned(s))

\* amount * price.  Both finite operands are multiples of 0.25, so the float
\* product is exact: (a/4) * (p/4) = a * p / 16
Negative(x) == x.n < 0 \/ x = NegZero

Multiply(amount, price) ==
    IF price.k = "text" THEN Raise("TypeError")
    ELSE IF amount = NaN \/ price = NaN THEN Ret(NaN)
    ELSE Ret(Signed(IF Negative(amount) # Negative(price) THEN 0 - 1 ELSE 1,
                    Abs(amount.n \div (Scale \div 4)) * Abs(price.n \div (Scale \div 4))
                        * (Scale \div 16)))

\* f"{x:,.<d>f}" on a float
FormatFloat(x, d) ==
    IF x = NaN THEN "nan"
    ELSE IF x = NegZero THEN "-" \o FormatF(0, d, TRUE)
    ELSE FormatF(x.n, d, TRUE)

ConvertFormatMagnitudeFirst(to_ticker, amount, result) ==
    IF Lt(result, 1)
    THEN [result_formatted |-> round_significant(result, 6),
          amount_formatted |-> FormatFloat(amount, 4)]
    ELSE IF to_ticker = <<"i", "d", "r">>
    THEN [result_formatted |-> Ret("Rp" \o FormatFloat(result, 0)),
          amount_formatted |-> FormatFloat(amount, 4)]
    ELSE [result_formatted |-> Ret(FormatFloat(result, 2)),
          amount_formatted |-> FormatFloat(amount, 2)]

\* lines 309-317
ConvertFormat(to_ticker, amount, result) ==
    IF to_ticker = <<"i", "d", "r">>
    THEN [result_formatted |-> Ret("Rp" \o FormatFloat(result, 0)),
          amount_formatted |-> FormatFloat(amount, 4)]
    ELSE IF Lt(result, 1)
    THEN [result_formatted |-> round_significant(result, 6),
          amount_formatted |-> FormatFloat(amount, 4)]
    ELSE [result_formatted |-> Ret(FormatFloat(result, 2)),
          amount_formatted |-> FormatFloat(amount, 2)]

MsgConvertUsage ==
    <<"Format: /cv [Jumlah] [Koin Asal] [Koin Tujuan (opsional, default: IDR)]",
      "Contoh: /cv 1 btc idr atau /cv 1 btc usdt">>

MsgNotNumber == <<"Jumlah harus berupa angka.">>

MsgCannotConvert(from_ticker, to_ticker) ==
    <<":x: Tidak dapat mengkonversi " \o Join(Upper(from_ticker)) \o " ke "
        \o Join(Upper(to_ticker)) \o ". Pastikan kedua ticker valid.">>

MsgConvertError == <<"Terjadi kesalahan saat mengambil data konversi. Coba lagi.">>

\* line 287
DefaultDestination(args) == IF Len(args) > 2 THEN Lower(args[3]) ELSE <<"i", "d", "r">>

PriceMissingAsZero(resp) == IF resp.price \in {Absent, None} THEN Num(0) ELSE resp.price

\* line 300: data.get(from_id, {}).get(to_id, None)
PriceOf(resp) == Get(resp.price, None)

\* lines 319-320
ConvertSend(call, f, from_ticker, to_ticker) ==
    IF ~f.result_formatted.ok THEN <<call, Reply("convert_error", MsgConvertError)>>
    ELSE <<call,
           Reply("result",
                 <<"*" \o f.amount_formatted \o " " \o Join(Upper(from_ticker)) \o "* sama dengan:",
                   "*" \o f.result_formatted.val \o " " \o Join(Upper(to_ticker)) \o "*">>)>>

\* lines 307-323
ConvertResult(call, result, amount, from_ticker, to_ticker) ==
    IF ~result.ok THEN <<call, Reply("convert_error", MsgConvertError)>>
    ELSE ConvertSend(call, ConvertFormat(to_ticker, amount, result.val), from_ticker, to_ticker)

\* lines 298-323
ConvertReply(call, st, price, amount, from_ticker, to_ticker) ==
    IF st # "ok" THEN <<call, Reply("convert_error", MsgConvertError)>>
    ELSE IF price = None
    THEN <<call, Reply("cannot_convert", MsgCannotConvert(from_ticker, to_ticker))>>
    ELSE ConvertResult(call, Multiply(amount, price), amount, from_ticker, to_ticker)

\* lines 289-323: resp is the answer of /simple/price
ConvertLookup(amount, from_ticker, to_ticker, resp) ==
    ConvertReply(HttpGet("simple/price",
                         <<Join(get_coin_id(from_ticker)), Join(get_coin_id(to_ticker))>>,
                         resp.st),
                 resp.st, PriceOf(resp), amount, from_ticker, to_ticker)

\* lines 280-287
ConvertAmount(amount, args, resp) ==
    IF ~amount.ok THEN <<Reply("not_number", MsgNotNumber)>>
    ELSE ConvertLookup(amount.val, Lower(args[2]), DefaultDestination(args), resp)

handle_convert(args, resp) ==
    IF Len(args) < 2 THEN <<Reply("usage", MsgConvertUsage)>>
    ELSE ConvertAmount(ParseFloat(args[1]), args, resp)

\* ------------------------------------------------------------------------
\* The admin checks (src/bot.py 76-94).  lookup is the outcome of
\* get_chat_member: the member's status, or "raise"

is_user_admin_trusting(lookup) == lookup \in {"administrator", "creator", "raise"}

is_user_admin(lookup) == lookup \in {"administrator", "creator"}

is_bot_admin(lookup) == lookup = "administrator"

\* ------------------------------------------------------------------------
\* handle_kick, handle_ban, handle_mute (src/bot.py 328-467)

MsgGroupOnly == <<"Perintah ini hanya dapat digunakan di dalam grup.">>

MsgNeedReply(what) == <<"Balas pesan pengguna yang ingin " \o what>>

MsgNotAdmin == <<":x: Anda harus menjadi Admin untuk menggunakan perintah ini.">>

MsgBotNotAdmin(permission) ==
    <<":x: Bot harus menjadi Admin dengan izin '" \o permission
        \o "' untuk melakukan tindakan ini.">>

MsgFailed(what) ==
    <<":x: Gagal " \o what \o " pengguna. Pastikan bot memiliki izin yang diperlukan.">>

MsgBadDuration ==
    <<"Format waktu tidak dikenali. Gunakan contoh: 10m, 2h, 1d atau /mute untuk default 1 jam.">>

TargetName == "Target User"

AskUser(user_lookup) == BotCall("get_chat_member", <<"invoker">>, user_lookup)

AskBot(bot_lookup) == BotCall("get_chat_member", <<"bot">>, bot_lookup)

\* the four checks every admin command starts with (lines 330-347): the
\* events of the checks, and whether all of them passed
AdminChecks(chat_type, has_reply, user_lookup, bot_lookup, what, permission) ==
    IF chat_type \notin {"group", "supergroup"}
    THEN [passed |-> FALSE, events |-> <<Reply("group_only", MsgGroupOnly)>>]
    ELSE IF ~has_reply
    THEN [passed |-> FALSE, events |-> <<Reply("need_reply", MsgNeedReply(what))>>]
    ELSE IF ~is_user_admin(user_lookup)
    THEN [passed |-> FALSE,
          events |-> <<AskUser(user_lookup), Reply("not_admin", MsgNotAdmin)>>]
    ELSE IF ~is_bot_admin(bot_lookup)
    THEN [passed |-> FALSE,
          events |-> <<AskUser(user_lookup), AskBot(bot_lookup),
                       Reply("bot_not_admin", MsgBotNotAdmin(permission))>>]
    ELSE [passed |-> TRUE, events |-> <<AskUser(user_lookup), AskBot(bot_lookup)>>]

KickUnbanRegardless(ban, unban) ==
    IF ban # "ok" \/ unban # "ok"
    THEN <<BotCall("ban_chat_member", <<"target", "60">>, ban),
           BotCall("unban_chat_member", <<"target">>, unban),
           Reply("failed", MsgFailed("mengeluarkan"))>>
    ELSE <<BotCall("ban_chat_member", <<"target", "60">>, ban),
           BotCall("unban_chat_member", <<"target">>, unban),
           Reply("done", <<":wave: " \o TargetName \o " telah dikeluarkan (Kick) dari grup.">>)>>

\* lines 351-360: ban, then unban, then the confirmation; any failure ends
\* the try block and sends the failure reply
Kick(ban, unban) ==
    IF ban # "ok"
    THEN <<BotCall("ban_chat_member", <<"target", "60">>, ban),
           Reply("failed", MsgFailed("mengeluarkan"))>>
    ELSE IF unban # "ok"
    THEN <<BotCall("ban_chat_member", <<"target", "60">>, ban),
           BotCall("unban_chat_member", <<"target">>, unban),
           Reply("failed", MsgFailed("mengeluarkan"))>>
    ELSE <<BotCall("ban_chat_member", <<"target", "60">>, ban),
           BotCall("unban_chat_member", <<"target">>, unban),
           Reply("done", <<":wave: " \o TargetName \o " telah dikeluarkan (Kick) dari grup.">>)>>

\* lines 386-391
Ban(ban) ==
    IF ban # "ok"
    THEN <<BotCall("ban_chat_member", <<"target">>, ban),
           Reply("failed", MsgFailed("melarang"))>>
    ELSE <<BotCall("ban_chat_member", <<"target">>, ban),
           Reply("done", <<":hammer: " \o TargetName
                             \o " telah dilarang (Ban) dari grup secara permanen.">>)>>

\* the command's action runs only after the checks passed
AfterChecks(checks, action) ==
    IF ~checks.passed THEN checks.events ELSE checks.events \o action

\* lines 328-360
handle_kick(chat_type, has_reply, user_lookup, bot_lookup, ban, unban) ==
    AfterChecks(AdminChecks(chat_type, has_reply, user_lookup, bot_lookup,
                            "dikeluarkan (/kick).", "Ban Users"),
                Kick(ban, unban))

\* lines 363-391
handle_ban(chat_type, has_reply, user_lookup, bot_lookup, ban) ==
    AfterChecks(AdminChecks(chat_type, has_reply, user_lookup, bot_lookup,
                            "dilarang (/ban).", "Ban Users"),
                Ban(ban))

\* int(s): an optional sign and at least one digit, else ValueError
ParseInt(s) ==
    IF Unsigned(s) # <<>> /\ \A i \in DOMAIN Unsigned(s) : Unsigned(s)[i] \in Digits
    THEN Ret(Sign(s) * DigitsValue(Unsigned(s)))
    ELSE Raise("ValueError")

IntStr(i) == MinusIf(i < 0) \o NatStr(Abs(i))

\* the seconds of one unit and its name in the confirmation
UnitSeconds(unit) == CASE unit = "h" -> 3600 [] unit = "d" -> 86400 [] OTHER -> 60

UnitWord(unit) == CASE unit = "h" -> " jam" [] unit = "d" -> " hari" [] OTHER -> " menit"

\* lines 424-440, one branch: max(60, count * seconds) and the text
DurationOf(count, unit) ==
    IF ~count.ok THEN count
    ELSE Ret([mute_seconds |-> Max(60, count.val * UnitSeconds(unit)),
              duration_text |-> IntStr(count.val) \o UnitWord(unit)])

\* lines 422-440: the unit is the last character when it is m, h or d, and
\* a bare number counts minutes
ParseDuration(ts) ==
    IF ts # <<>> /\ ts[Len(ts)] \in {"m", "h", "d"}
    THEN DurationOf(ParseInt(SubSeq(ts, 1, Len(ts) - 1)), ts[Len(ts)])
    ELSE DurationOf(ParseInt(ts), "")

\* lines 417-443: the duration asked for, default one hour
MuteDuration(args) ==
    IF args = <<>> THEN Ret([mute_seconds |-> 3600, duration_text |-> "1 jam"])
    ELSE ParseDuration(Lower(args[1]))

\* lines 441-467
Mute(duration, restrict) ==
    IF ~duration.ok THEN <<Reply("bad_duration", MsgBadDuration)>>
    ELSE IF restrict # "ok"
    THEN <<BotCall("restrict_chat_member", <<"target", NatStr(duration.val.mute_seconds)>>, restrict),
           Reply("failed", MsgFailed("membisukan"))>>
    ELSE <<BotCall("restrict_chat_member", <<"target", NatStr(duration.val.mute_seconds)>>, restrict),
           Reply("done", <<":mute: " \o TargetName \o " telah dibisukan selama "
                             \o duration.val.duration_text \o ".">>)>>

\* lines 394-467
handle_mute(chat_type, has_reply, user_lookup, bot_lookup, args, restrict) ==
    AfterChecks(AdminChecks(chat_type, has_reply, user_lookup, bot_lookup,
                            "dibisukan (/mute [menit/jam/hari], default 1h).",
                            "Restrict Members"),
                Mute(MuteDuration(args), restrict))

\* ------------------------------------------------------------------------
\* Specifications of the pure helpers: Init draws the arguments, the action
\* applies the function

MaxQuarter == 5000

MaxSig == 4

MaxPct == 600

MaxLen == 3

Quarter == Scale \div 4

Hundredth == Scale \div 100

Sigs == (1..MaxSig) \cup {6, 8}

FmtInputs ==
    {Num(q * Quarter) : q \in (0 - MaxQuarter)..MaxQuarter}
        \cup {None, NaN, Inf(1), Inf(0 - 1), Tiny(1), Tiny(0 - 1), Huge, Text}

InitFmt ==
    /\ cmd = "args"
    /\ input \in [x : FmtInputs, sig : Sigs]
    /\ log = <<>>
    /\ ret = <<>>

CallRoundSignificant ==
    /\ cmd = "args"
    /\ cmd' = "round_significant"
    /\ ret' = round_significant(input.x, input.sig)
    /\ UNCHANGED <<input, log>>

SpecFmt == InitFmt /\ [][CallRoundSignificant]_vars

EmojiInputs ==
    {Num(h * Hundredth) : h \in (0 - MaxPct)..MaxPct} \cup {None, NaN}

InitEmoji ==
    /\ cmd = "args"
    /\ input \in [x : EmojiInputs]
    /\ log = <<>>
    /\ ret = <<>>

CallGetEmoji ==
    /\ cmd = "args"
    /\ cmd' = "get_emoji"
    /\ ret' = [fast |-> get_emoji_fast(input.x), fallback |-> get_emoji_fallback(input.x)]
    /\ UNCHANGED <<input, log>>

SpecEmoji == InitEmoji /\ [][CallGetEmoji]_vars

Alphabet == {"b", "t", "c", "B", "T", "C", "1"}

StringsUpTo(n) == UNION {[1..k -> Alphabet] : k \in 0..n}

CaseVariants(w) ==
    {[i \in DOMAIN w |-> IF i \in S THEN UpperChar(w[i]) ELSE w[i]] : S \in SUBSET DOMAIN w}

AliasTickers == {<<"i", "d", "r">>, <<"b", "t", "c">>, <<"e", "t", "h">>, <<"u", "s", "d", "t">>}

CoinInputs == StringsUpTo(MaxLen) \cup UNION {CaseVariants(w) : w \in AliasTickers}

InitCoin ==
    /\ cmd = "args"
    /\ input \in [ticker : CoinInputs]
    /\ log = <<>>
    /\ ret = <<>>

CallGetCoinId ==
    /\ cmd = "args"
    /\ cmd' = "get_coin_id"
    /\ ret' = get_coin_id(input.ticker)
    /\ UNCHANGED <<input, log>>

SpecCoin == InitCoin /\ [][CallGetCoinId]_vars

\* ------------------------------------------------------------------------
\* The bot: the dispatcher waits for an update (cmd = "idle"), hands a
\* command to its handler, which runs to its end, and waits again.  The
\* handlers share no state: log holds the events of the invocation that
\* just ran, input its arguments and the answers its requests received
\* (NotAsked for a request it did not make).

NotAsked == [st |-> "not_asked"]

Quarters(q) == Num(q * Quarter)

Pct1h == {None, Quarters(0 - 5)}

Pct24h == {None, Quarters(20)}

Pct7d == {None, Quarters(0), Quarters(1)}

OptionalVals(v) == {Absent, v}

MarketsItem(full, p_1h, p_24h, p_7d) ==
    [current_price |-> IF full THEN Quarters(4938) ELSE Absent,
     price_change_percentage_1h_in_currency |-> p_1h,
     price_change_percentage_24h |-> p_24h,
     price_change_percentage_7d_in_currency |-> p_7d,
     high_24h |-> IF full THEN Quarters(5000) ELSE Absent,
     low_24h |-> IF full THEN Quarters(4801) ELSE Absent,
     market_cap |-> IF full THEN Quarters(400002) ELSE None,
     total_volume |-> IF full THEN Quarters(50006) ELSE Absent,
     fully_diluted_valuation |-> IF full THEN Quarters(420000) ELSE None,
     market_cap_rank |-> IF full THEN Quarters(12) ELSE Absent]

MarketsAnswers ==
    {[st |-> "http_error", items |-> <<>>], [st |-> "exception", items |-> <<>>],
     [st |-> "ok", items |-> <<>>]}
    \cup {[st |-> "ok", items |-> <<MarketsItem(full, p1, p24, p7)>>] :
            full \in BOOLEAN, p1 \in Pct1h, p24 \in Pct24h, p7 \in Pct7d}

SimpleAnswers ==
    {[st |-> "http_error", entry |-> Absent], [st |-> "exception", entry |-> Absent],
     [st |-> "ok", entry |-> Absent]}
    \cup {[st |-> "ok", entry |-> [btc |-> b, eth |-> e]] :
            b \in OptionalVals(Quarters(1)), e \in OptionalVals(Quarters(51))}

MarketData(full, btc, eth, p_1h, p_24h, p_7d) ==
    [current_price |-> [usd |-> IF full THEN Quarters(4938) ELSE Absent,
                        btc |-> btc, eth |-> eth],
     price_change_percentage_1h_in_currency |-> p_1h,
     price_change_percentage_24h |-> p_24h,
     price_change_percentage_7d |-> p_7d,
     high_24h |-> IF full THEN Quarters(5000) ELSE Absent,
     low_24h |-> IF full THEN Quarters(4801) ELSE Absent,
     market_cap |-> IF full THEN Quarters(400002) ELSE None,
     total_volume |-> IF full THEN Quarters(50006) ELSE Absent,
     fully_diluted_valuation |-> IF full THEN Quarters(420000) ELSE None,
     market_cap_rank |-> IF full THEN Quarters(12) ELSE Absent]

DetailAnswers ==
    {[st |-> "http_404"], [st |-> "http_error"], [st |-> "exception"]}
    \cup {[st |-> "ok", market_data |-> MarketData(full, b, e, p1, p24, p7)] :
            full \in BOOLEAN, b \in OptionalVals(Quarters(1)), e \in OptionalVals(Quarters(51)),
            p1 \in Pct1h, p24 \in Pct24h, p7 \in Pct7d}

PriceArgs == {<<>>, << <<"b", "t", "c">> >>, << <<"X", "r", "d">>, <<"1">> >>}

AmountArgs ==
    {<<"1">>, <<"0", ".", "2", "5">>, <<"-", "2", ".", "5">>, <<"1", "2", ".", "7", "5">>,
     <<"0">>, <<"-", "0">>, <<"n", "a", "n">>, <<"a", "b", "c">>, <<"1", ".", "5", ".">>}

TickerArgs == {<<"b", "t", "c">>, <<"I", "D", "R">>, <<"U", "s", "d", "t">>, <<"x">>}

ConvertArgs ==
    {<<>>}
    \cup {<<a>> : a \in AmountArgs}
    \cup {<<a, f>> : a \in AmountArgs, f \in TickerArgs}
    \cup {<<a, f, t>> : a \in AmountArgs, f \in TickerArgs, t \in TickerArgs}

ConvertAnswers ==
    {[st |-> "http_error", price |-> Absent], [st |-> "exception", price |-> Absent]}
    \cup {[st |-> "ok", price |-> v] :
            v \in {Absent, None, Text, NaN, Quarters(0), Quarters(1), Quarters(2),
                   Quarters(6), Quarters(65002), Quarters(0 - 3)}}

ChatTypes == {"private", "group", "supergroup", "channel"}

Lookups == {"raise", "creator", "administrator", "member", "restricted", "left", "kicked"}

CallOutcomes == {"ok", "raise"}

MuteArgs ==
    {<<>>, << <<"1", "0", "m">> >>, << <<"2", "H">> >>, << <<"1", "d">> >>, << <<"5">> >>,
     << <<"0", "m">> >>, << <<"-", "3", "h">> >>, << <<"m">> >>, << <<"a", "b", "c">> >>}

Init == cmd = "idle" /\ input = <<>> /\ log = <<>> /\ ret = <<>>

\* the answers handle_price can receive: none from an endpoint it does not ask
MarketsAsked(args) == IF args = <<>> THEN {NotAsked} ELSE MarketsAnswers

SimpleAsked(args, m) ==
    IF args # <<>> /\ m.st = "ok" /\ m.items # <<>> THEN SimpleAnswers ELSE {NotAsked}

DetailAsked(args, m, sp) ==
    IF args # <<>> /\ ~FastPath(Upper(args[1]), get_coin_id(Upper(args[1])), m, sp).sent
    THEN DetailAnswers ELSE {NotAsked}

HandlePrice ==
    /\ cmd = "idle"
    /\ \E args \in PriceArgs :
        \E m \in MarketsAsked(args) :
            \E sp \in SimpleAsked(args, m) :
                \E fb \in DetailAsked(args, m, sp) :
                    /\ log' = handle_price(args, m, sp, fb)
                    /\ input' = [args |-> args, markets |-> m, simple |-> sp, detail |-> fb]
    /\ cmd' = "p"
    /\ ret' = <<>>

\* handle_convert asks /simple/price once the amount is read
ConvertAsked(args) ==
    IF Len(args) >= 2 /\ ParseFloat(args[1]).ok THEN ConvertAnswers ELSE {NotAsked}

HandleConvert ==
    /\ cmd = "idle"
    /\ \E args \in ConvertArgs :
        \E resp \in ConvertAsked(args) :
            /\ log' = handle_convert(args, resp)
            /\ input' = [args |-> args, simple |-> resp]
    /\ cmd' = "cv"
    /\ ret' = <<>>

HandleKick ==
    /\ cmd = "idle"
    /\ \E chat_type \in ChatTypes, has_reply \in BOOLEAN, user_lookup \in Lookups,
          bot_lookup \in Lookups, ban \in CallOutcomes, unban \in CallOutcomes :
        /\ log' = handle_kick(chat_type, has_reply, user_lookup, bot_lookup, ban, unban)
        /\ input' = [chat_type |-> chat_type, has_reply |-> has_reply]
    /\ cmd' = "kick"
    /\ ret' = <<>>

HandleBan ==
    /\ cmd = "idle"
    /\ \E chat_type \in ChatTypes, has_reply \in BOOLEAN, user_lookup \in Lookups,
          bot_lookup \in Lookups, ban \in CallOutcomes :
        /\ log' = handle_ban(chat_type, has_reply, user_lookup, bot_lookup, ban)
        /\ input' = [chat_type |-> chat_type, has_reply |-> has_reply]
    /\ cmd' = "ban"
    /\ ret' = <<>>

HandleMute ==
    /\ cmd = "idle"
    /\ \E chat_type \in ChatTypes, has_reply \in BOOLEAN, user_lookup \in Lookups,
          bot_lookup \in Lookups, args \in MuteArgs, restrict \in CallOutcomes :
        /\ log' = handle_mute(chat_type, has_reply, user_lookup, bot_lookup, args, restrict)
        /\ input' = [chat_type |-> chat_type, has_reply |-> has_reply, args |-> args]
    /\ cmd' = "mute"
    /\ ret' = <<>>

\* the handler has returned and the webhook answers; the next update is awaited
Return ==
    /\ cmd \in {"p", "cv", "kick", "ban", "mute"}
    /\ cmd' = "idle"
    /\ input' = <<>>
    /\ log' = <<>>
    /\ ret' = <<>>

Next ==
    \/ HandlePrice
    \/ HandleConvert
    \/ HandleKick
    \/ HandleBan
    \/ HandleMute
    \/ Return

Spec == Init /\ [][Next]_vars
\* ------------------------------------------------------------------------
\* Properties of the handlers (specification Spec)

Replies == {i \in DOMAIN log : log[i].op = "reply_text"}

ReplyKinds == {log[i].arg[1] : i \in Replies}

ModerationCalls ==
    {i \in DOMAIN log : log[i].op \in {"ban_chat_member", "restrict_chat_member"}}

\* the get_chat_member lookups about who that ran before event i
LookupsBefore(who, i) ==
    {j \in 1..(i - 1) : log[j].op = "get_chat_member" /\ log[j].arg = <<who>>}

\* C1: in /kick, /ban and /mute a moderation call (ban_chat_member or
\* restrict_chat_member) is issued only when, earlier in the invocation, the
\* chat was a group or supergroup, the command replied to a message, the
\* invoker's status was reported as administrator or creator and the bot's
\* as administrator; a status lookup that raised leaves no moderation call.
C1_ModerationIsGated ==
    cmd \in {"kick", "ban", "mute"} =>
        \A i \in ModerationCalls :
            /\ input.chat_type \in {"group", "supergroup"}
            /\ input.has_reply
            /\ \E j \in LookupsBefore("invoker", i) :
                   log[j].res \in {"administrator", "creator"}
            /\ \E j \in LookupsBefore("bot", i) : log[j].res = "administrator"
            /\ \A j \in DOMAIN log : log[j].op = "get_chat_member" => log[j].res # "raise"

C1_Muted ==
    /\ cmd = "mute"
    /\ \E i \in ModerationCalls : log[i].op = "restrict_chat_member" /\ log[i].res = "ok"
    /\ \E j \in DOMAIN log :
           log[j].op = "get_chat_member" /\ log[j].arg = <<"invoker">> /\ log[j].res = "creator"

\* the report replies of /p
Reports == {i \in Replies : log[i].arg = <<"report">>}

\* the snapshot /p received from /coins/markets, when it received one
HasFastSnapshot ==
    cmd = "p" /\ input.args # <<>> /\ input.markets.st = "ok" /\ input.markets.items # <<>>

\* the snapshot /p received from /coins/{id}, when it received one
HasFallbackSnapshot == cmd = "p" /\ input.args # <<>> /\ input.detail.st = "ok"

\* the report shows the percent lines of the three changes, an absent one
\* with an empty value and an empty emoji
ShowsAbsentAsEmpty(i, p_1h, p_24h, p_7d) ==
    /\ p_1h = None => log[i].res[6] = "1h: % "
    /\ p_24h = None => log[i].res[7] = "24h: % "
    /\ p_7d = None => log[i].res[8] = "7d: % "

\* C2: when the snapshot the provider returned lacks a percent change (1h,
\* 24h or 7d), /p still replies with the full report, and the line of the
\* absent percent shows an empty value and an empty emoji, on the fast path
\* (/coins/markets) and on the fallback path (/coins/{id}) alike.
C2_AbsentPercentIsEmpty ==
    /\ (HasFastSnapshot /\ None \in
            {input.markets.items[1].price_change_percentage_1h_in_currency,
             input.markets.items[1].price_change_percentage_24h,
             input.markets.items[1].price_change_percentage_7d_in_currency})
        => /\ input.detail = NotAsked
           /\ \E i \in Reports :
                  ShowsAbsentAsEmpty(i,
                      input.markets.items[1].price_change_percentage_1h_in_currency,
                      input.markets.items[1].price_change_percentage_24h,
                      input.markets.items[1].price_change_percentage_7d_in_currency)
    /\ (HasFallbackSnapshot /\ None \in
            {input.detail.market_data.price_change_percentage_1h_in_currency,
             input.detail.market_data.price_change_percentage_24h,
             input.detail.market_data.price_change_percentage_7d})
        => \E i \in Reports :
               ShowsAbsentAsEmpty(i,
                   input.detail.market_data.price_change_percentage_1h_in_currency,
                   input.detail.market_data.price_change_percentage_24h,
                   input.detail.market_data.price_change_percentage_7d)

\* the fallback snapshot lacks the 1h percent and the reply is the internal
\* error message
C2_AbsentPercentGivesInternalError ==
    /\ HasFallbackSnapshot
    /\ input.detail.market_data.price_change_percentage_1h_in_currency = None
    /\ input.detail.market_data.price_change_percentage_24h # None
    /\ input.detail.market_data.price_change_percentage_7d # None
    /\ ReplyKinds = {"internal_error"}

\* the fast path found no price in currency (a field of the /simple/price
\* entry): the lookup failed, the coin is missing or the currency is
FastPriceMissing(currency) ==
    \/ input.simple.st # "ok"
    \/ input.simple.entry = Absent
    \/ currency = "btc" /\ input.simple.entry.btc = Absent
    \/ currency = "eth" /\ input.simple.entry.eth = Absent

\* C3: in every report /p sends, an absent BTC or ETH price reads "N/A" and
\* never a zero, whether it is missing from /simple/price on the fast path
\* or from current_price on the fallback path.
C3_AbsentPriceIsNA ==
    cmd = "p" =>
        \A i \in Reports :
            /\ (HasFastSnapshot /\ input.detail = NotAsked /\ FastPriceMissing("btc"))
                   => log[i].res[3] = "BTC: N/A"
            /\ (HasFastSnapshot /\ input.detail = NotAsked /\ FastPriceMissing("eth"))
                   => log[i].res[4] = "ETH: N/A"
            /\ (HasFallbackSnapshot /\ input.detail.market_data.current_price.btc = Absent)
                   => log[i].res[3] = "BTC: N/A"
            /\ (HasFallbackSnapshot /\ input.detail.market_data.current_price.eth = Absent)
                   => log[i].res[4] = "ETH: N/A"

\* the fallback snapshot has no BTC price and the report shows a zero
C3_AbsentPriceShownAsZero ==
    /\ HasFallbackSnapshot
    /\ input.detail.market_data.current_price.btc = Absent
    /\ \E i \in Reports : log[i].res[3] = "BTC: 0"

\* C4: every invocation of /p and /cv sends exactly one reply, whatever the
\* outcomes of its requests and of its argument checks: none ends without a
\* reply, none sends two, and the reply is the last thing the handler does.
C4_ExactlyOneReply ==
    cmd \in {"p", "cv"} =>
        /\ Cardinality(Replies) = 1
        /\ log[Len(log)].op = "reply_text"

\* /p built no report from the fast snapshot, asked /coins/{id}, which
\* failed, and replied once
C4_RepliedAfterBothPathsFailed ==
    /\ HasFastSnapshot
    /\ input.detail.st = "exception"
    /\ Len(log) = 4
    /\ Cardinality(Replies) = 1

\* the conversion replies of /cv
Results == {i \in Replies : log[i].arg = <<"result">>}

\* the amount, the destination and the product /cv works with
AmountOf(args) == ParseFloat(args[1]).val

DestinationOf(args) == IF Len(args) > 2 THEN Lower(args[3]) ELSE <<"i", "d", "r">>

ResultOf(args, price) == Multiply(AmountOf(args), price).val

\* the two lines of the conversion reply around the formatted amount and result
ResultLines(args, amount_text, result_text) ==
    <<"*" \o amount_text \o " " \o Join(Upper(args[2])) \o "* sama dengan:",
      "*" \o result_text \o " " \o Join(Upper(DestinationOf(args))) \o "*">>

\* C5: /cv selects the formatting rule in a fixed order from the destination
\* and result = amount * price: (1) destination idr: "Rp" and the result
\* grouped with 0 decimals, the amount with 4 decimals; (2) otherwise
\* result < 1: the result through round_significant at sig = 6, the amount
\* with 4 decimals; (3) otherwise both with 2 decimals, grouped.  Rule 1 wins
\* over rule 2, and a negative result to another destination takes rule 2.
C5_FormatRuleOrder ==
    cmd = "cv" =>
        \A i \in Results :
            log[i].res =
                IF DestinationOf(input.args) = <<"i", "d", "r">>
                THEN ResultLines(input.args,
                         FormatFloat(AmountOf(input.args), 4),
                         "Rp" \o FormatFloat(ResultOf(input.args, input.simple.price), 0))
                ELSE IF Lt(ResultOf(input.args, input.simple.price), 1)
                THEN ResultLines(input.args,
                         FormatFloat(AmountOf(input.args), 4),
                         round_significant(ResultOf(input.args, input.simple.price), 6).val)
                ELSE ResultLines(input.args,
                         FormatFloat(AmountOf(input.args), 2),
                         FormatFloat(ResultOf(input.args, input.simple.price), 2))

\* 0.25 of a coin priced 0.25 idr: the result 0.0625 is below 1 and the
\* destination is idr, and rule 1 applies
C5_IdrBelowOne ==
    /\ cmd = "cv"
    /\ input.args = << <<"0", ".", "2", "5">>, <<"b", "t", "c">> >>
    /\ input.simple = [st |-> "ok", price |-> Quarters(1)]
    /\ \E i \in Results : log[i].res = <<"*0.2500 BTC* sama dengan:", "*Rp0 IDR*">>

\* C6: when /simple/price returns no price for the pair, /cv replies that it
\* cannot convert and sends no result; a result is sent only when a price
\* was returned; the destination is idr when the third argument is omitted;
\* an amount that is no number is rejected before any price lookup.
C6_NoPriceNoResult ==
    cmd = "cv" =>
        /\ (input.simple.st = "ok" /\ input.simple.price \in {Absent, None})
               => ReplyKinds = {"cannot_convert"}
        /\ Results # {}
               => input.simple.st = "ok" /\ input.simple.price \notin {Absent, None}
        /\ \A i \in DOMAIN log :
               (log[i].op = "simple/price" /\ Len(input.args) = 2) => log[i].arg[2] = "idr"
        /\ (Len(input.args) >= 2 /\ input.args[1] \in {<<"a", "b", "c">>, <<"1", ".", "5", ".">>})
               => /\ ReplyKinds = {"not_number"}
                  /\ \A i \in DOMAIN log : log[i].op # "simple/price"

\* the provider knows no price for x in idr, the default destination
C6_CannotConvert ==
    /\ cmd = "cv"
    /\ input.args = << <<"1">>, <<"x">> >>
    /\ input.simple = [st |-> "ok", price |-> Absent]
    /\ log = <<HttpGet("simple/price", <<"x", "idr">>, "ok"),
               Reply("cannot_convert",
                     <<":x: Tidak dapat mengkonversi X ke IDR. Pastikan kedua ticker valid.">>)>>

\* ------------------------------------------------------------------------
\* Properties of get_coin_id (specification SpecCoin)

IsLowercase(s) == \A i \in DOMAIN s : \A j \in DOMAIN UpperChars : s[i] # UpperChars[j]

\* the identifier of each alias, and the lower-cased ticker otherwise
AliasesAndLowercase(ticker, id) ==
    /\ ticker \in CaseVariants(<<"i", "d", "r">>) => id = <<"i", "d", "r">>
    /\ ticker \in CaseVariants(<<"b", "t", "c">>) => id = <<"b", "i", "t", "c", "o", "i", "n">>
    /\ ticker \in CaseVariants(<<"e", "t", "h">>)
           => id = <<"e", "t", "h", "e", "r", "e", "u", "m">>
    /\ ticker \in CaseVariants(<<"u", "s", "d", "t">>) => id = <<"t", "e", "t", "h", "e", "r">>
    /\ ticker \notin UNION {CaseVariants(w) : w \in AliasTickers}
           => /\ Len(id) = Len(ticker)
              /\ \A i \in DOMAIN ticker : id[i] = LowerChar(ticker[i])
    /\ IsLowercase(id)

\* C7 as amended: get_coin_id returns a lowercase string for every input;
\* idr, btc, eth and usdt in any letter case map to idr, bitcoin, ethereum
\* and tether, every other string to its lower-cased form, which is
\* non-empty exactly when the input is: the empty string maps to itself.
C7_AliasesElseLowercase ==
    cmd = "get_coin_id" =>
        /\ AliasesAndLowercase(input.ticker, ret)
        /\ (ret = <<>>) <=> (input.ticker = <<>>)

\* C7 as stated: get_coin_id returns a non-empty lowercase string for every
\* input string, the aliases map to their identifiers and every other
\* string to its lower-cased form.
C7_AlwaysNonEmpty ==
    cmd = "get_coin_id" =>
        /\ AliasesAndLowercase(input.ticker, ret)
        /\ ret # <<>>

C7_MixedCaseAlias ==
    /\ cmd = "get_coin_id"
    /\ input.ticker = <<"B", "t", "C">>
    /\ ret = <<"b", "i", "t", "c", "o", "i", "n">>

\* ------------------------------------------------------------------------
\* Properties of get_emoji (specification SpecEmoji)

\* the emoji of a percent value as the rule gives it
EmojiOf(x) ==
    IF IsNum(x) /\ x.n >= 5 * Scale THEN ":beers:"
    ELSE IF IsNum(x) /\ x.n > 0 THEN ":grin:"
    ELSE IF IsNum(x) /\ x.n < 0 THEN ":pensive:"
    ELSE ""

\* C8: the emoji depends on the percent value alone: >= 5 gives the beers
\* emoji, between 0 and 5 the grinning face, below 0 the pensive face, 0 or
\* absent the empty string; the closure of the fast path and the closure of
\* the fallback path return the same emoji for every percent value.
C8_SameEmoji ==
    cmd = "get_emoji" =>
        /\ ret.fast = Ret(EmojiOf(input.x))
        /\ ret.fallback = ret.fast

C8_JustBelowFive ==
    /\ cmd = "get_emoji"
    /\ input.x = Num(499 * Hundredth)
    /\ ret = [fast |-> Ret(":grin:"), fallback |-> Ret(":grin:")]

\* ------------------------------------------------------------------------
\* Properties of round_significant (specification SpecFmt)

\* the e with 10^e <= a / Scale < 10^(e + 1), for a > 0
Exponent(a) == CHOOSE e \in (0 - 4)..4 : 10^(e + 4) <= a /\ a < 10^(e + 5)

\* d = sig - floor(log10(|x|)) - 1
Decimals(x, sig) == sig - Exponent(Abs(x.n)) - 1

\* the value of the last of d decimal places, as a count of 1e-4 (the inputs
\* hold at most four decimals)
Unit(d) == IF d >= 4 THEN 1 ELSE 10^(4 - d)

\* r (a count of 1e-4, like a) is a / Scale rounded to the nearest value
\* with d decimal places; a value halfway between two candidates goes to the
\* even one, or, with ties_up, to the larger one
IsNearest(r, a, d, ties_up) ==
    /\ r % Unit(d) = 0
    /\ 2 * Abs(a - r) <= Unit(d)
    /\ 2 * Abs(a - r) = Unit(d)
           => IF ties_up THEN r > a ELSE (r \div Unit(d)) % 2 = 0

\* the rounded magnitude r with thousands separators: as an integer when it
\* is whole, else with max(d, 0) decimals
Rendering(negative, r, d) ==
    MinusIf(negative) \o Grouped(r \div Scale)
        \o (IF r % Scale = 0 THEN "" ELSE FracText(r % Scale, Max(d, 0)))

\* round_significant(x, sig) returned the rendering of the value nearest to
\* x with Decimals(x, sig) decimal places
ReturnsNearest(x, sig, ties_up) ==
    \E r \in {Unit(Decimals(x, sig)) * q :
                 q \in {Abs(x.n) \div Unit(Decimals(x, sig)),
                        Abs(x.n) \div Unit(Decimals(x, sig)) + 1}} :
        /\ IsNearest(r, Abs(x.n), Decimals(x, sig), ties_up)
        /\ ret = Ret(Rendering(x.n < 0, r, Decimals(x, sig)))

C10_AlwaysAString ==
    cmd = "round_significant" =>
        /\ ret.ok
        /\ ret.val \in STRING
        /\ input.x = None => ret.val = "None"
        /\ input.x = Text => ret.val = "abc"
        /\ input.x = NaN => ret.val = "nan"
        /\ input.x = Inf(1) => ret.val = "inf"
        /\ input.x = Inf(0 - 1) => ret.val = "-inf"
        /\ (input.x = Huge /\ input.sig <= 2) => ret.val = "1.79e+308"

\* None has no absolute value: the TypeError is caught and "None" returned
C10_NoneGivesItsString ==
    /\ cmd = "round_significant"
    /\ input.x = None
    /\ ret = Ret("None")

\* ------------------------------------------------------------------------
\* Properties of the order of the requests and calls (specification Spec)

\* the requests to /coins/{id} of the invocation
DetailQueries == {i \in DOMAIN log : log[i].op = "coins/{id}"}

\* the fast path ended with its report sent: the reply follows the
\* /simple/price request with nothing in between
FastReportSent == \E i \in Reports : i > 1 /\ log[i - 1].op = "simple/price"

\* C11: in /p with a ticker, /coins/{id} is queried exactly when the fast
\* path did not end with a sent report: after a /coins/markets HTTP error,
\* exception or timeout, after an empty list, after an error while building
\* the fast report, and never after the fast report was sent; it is queried
\* after /coins/markets, once.  The "coin not found" reply is sent only when
\* /coins/{id} fails with HTTP status 404; any other HTTP error of it gives
\* the API-error reply and any other exception the internal-error reply.
C11_FallbackIffNoFastReport ==
    (cmd = "p" /\ input.args # <<>>) =>
        /\ (DetailQueries # {}) <=> ~FastReportSent
        /\ DetailQueries \in {{}, {Len(log) - 1}}
        /\ log[1].op = "coins/markets"
        /\ log[1].res \in {"http_error", "exception"} => DetailQueries # {}
        /\ (input.markets.st = "ok" /\ input.markets.items = <<>>) => DetailQueries # {}
        /\ (HasFastSnapshot /\ None \in
                {input.markets.items[1].price_change_percentage_1h_in_currency,
                 input.markets.items[1].price_change_percentage_24h,
                 input.markets.items[1].price_change_percentage_7d_in_currency})
               => DetailQueries # {}
        /\ ("not_found" \in ReplyKinds)
               <=> \E i \in DetailQueries : log[i].res = "http_404"
        /\ \A i \in DetailQueries :
               /\ log[i].res = "http_error" => ReplyKinds = {"api_error"}
               /\ log[i].res = "exception" => ReplyKinds = {"internal_error"}
               /\ log[i].res = "ok" => ReplyKinds \in {{"report"}, {"internal_error"}}

\* the fast report could not be built (no 24h percent), /coins/{id} was
\* queried and answered with an HTTP error other than 404
C11_FallbackApiError ==
    /\ HasFastSnapshot
    /\ input.markets.items[1].price_change_percentage_24h = None
    /\ Len(log) = 4
    /\ log[3] = HttpGet("coins/{id}", <<"bitcoin">>, "http_error")
    /\ log[4] = Reply("api_error", MsgApiError)

BanCalls == {i \in DOMAIN log : log[i].op = "ban_chat_member"}

UnbanCalls == {i \in DOMAIN log : log[i].op = "unban_chat_member"}

\* C12: in /kick, unban_chat_member is called only after ban_chat_member
\* succeeded for the same user, and the "telah dikeluarkan" confirmation is
\* sent only after both calls succeeded; after a failed ban no unban is
\* attempted, and after either failure the failure reply is sent in place of
\* the confirmation (after a failed unban the ban stands).
C12_UnbanOnlyAfterBan ==
    cmd = "kick" =>
        /\ \A i \in UnbanCalls :
               \E j \in BanCalls :
                   j < i /\ log[j].res = "ok" /\ log[j].arg[1] = log[i].arg[1]
        /\ \A i \in Replies :
               log[i].arg = <<"done">> =>
                   /\ \E j \in BanCalls : j < i /\ log[j].res = "ok"
                   /\ \E j \in UnbanCalls : j < i /\ log[j].res = "ok"
        /\ \A j \in BanCalls :
               log[j].res # "ok" => UnbanCalls = {} /\ ReplyKinds = {"failed"}
        /\ \A i \in UnbanCalls : log[i].res # "ok" => ReplyKinds = {"failed"}

\* the ban succeeded, the unban failed, and the invoker is told the kick failed
C12_BannedButNotUnbanned ==
    /\ cmd = "kick"
    /\ Len(log) = 5
    /\ log[3] = BotCall("ban_chat_member", <<"target", "60">>, "ok")
    /\ log[4] = BotCall("unban_chat_member", <<"target">>, "raise")
    /\ log[5] = Reply("failed", MsgFailed("mengeluarkan"))

====
